---- MODULE Spec2Model ----
(***************************************************************************)
(* Tree Locator (src/main.py): a Flask service that geocodes a place with  *)
(* Nominatim and counts / samples OSM trees with Overpass.                 *)
(*                                                                         *)
(* Conventions of the model                                                *)
(*   - a Python str is a sequence of one-character strings;                *)
(*   - an Optional value is <<>> (None) or <<v>>;                          *)
(*   - a float number of kilometres is an integer number of FLOAT_UNIT-ths *)
(*     of a kilometre (decimal texts with at most four fractional digits); *)
(*   - an unbounded Python int that may exceed 2^31 (OSM ids, Overpass     *)
(*     area ids) is a pair <<hi, lo>> standing for hi * BASE + lo;         *)
(*   - a call either returns Ok(v) or raises: Raise(..) is UserFacingError,*)
(*     RaiseOther(..) any other exception.                                 *)
(***************************************************************************)
EXTENDS Integers, Sequences, FiniteSets, TLC

None == <<>>
Some(v) == <<v>>
IsNone(o) == o = <<>>
Get(o, default) == IF o = <<>> THEN default ELSE o[1]

Ok(v) == [ok |-> TRUE, val |-> v]
Raise(message, hint) == [ok |-> FALSE, user |-> TRUE, message |-> message, hint |-> hint]
RaiseOther(name) == [ok |-> FALSE, user |-> FALSE, message |-> name, hint |-> None]

(***************************************************************************)
(* Limits (src/main.py 51-56)                                              *)
(***************************************************************************)
Q_MAX_LEN == 120
\* the model's float precision: decimal digits kept after the point
FracDigits == 4
RECURSIVE Pow10(_)
Pow10(n) == IF n = 0 THEN 1 ELSE 10 * Pow10(n - 1)
FLOAT_UNIT == Pow10(FracDigits)
RADIUS_MIN_KM == FLOAT_UNIT \div 10
RADIUS_MAX_KM == 50 * FLOAT_UNIT
SAMPLE_MAX == 2000
SAMPLE_DEFAULT == 500

(***************************************************************************)
(* Characters and the str methods the validators use                       *)
(***************************************************************************)
Digits == <<"0", "1", "2", "3", "4", "5", "6", "7", "8", "9">>
IsDigit(c) == \E i \in 1..10 : Digits[i] = c
DigitVal(c) == (CHOOSE i \in 1..10 : Digits[i] = c) - 1

UpperLower ==
    << <<"A", "a">>, <<"B", "b">>, <<"C", "c">>, <<"D", "d">>, <<"E", "e">>,
       <<"I", "i">>, <<"L", "l">>, <<"M", "m">>, <<"N", "n">>, <<"O", "o">>,
       <<"P", "p">>, <<"R", "r">>, <<"S", "s">>, <<"T", "t">>, <<"U", "u">>,
       <<"W", "w">>, <<"Y", "y">>, <<"A_uml", "a_uml">> >>
IsUpper(c) == \E i \in DOMAIN UpperLower : UpperLower[i][1] = c
IsLower(c) == \E i \in DOMAIN UpperLower : UpperLower[i][2] = c
\* letters without a case pair in the table above (sharp s, e acute)
OtherLetters == {"sz", "e_acute"}
IsLetter(c) == IsUpper(c) \/ IsLower(c) \/ c \in OtherLetters

\* str.isspace / regex \s
IsSpace(c) == c \in {" ", "\t", "\n"}
\* regex \w under re.UNICODE: alphanumerics and the underscore
IsWordChar(c) == IsLetter(c) \/ IsDigit(c) \/ c = "_"

LowerChar(c) ==
    IF IsUpper(c)
    THEN UpperLower[CHOOSE i \in DOMAIN UpperLower : UpperLower[i][1] = c][2]
    ELSE c
Lower(s) == [i \in 1..Len(s) |-> LowerChar(s[i])]

\* str.strip(): the text between its first and its last non-space character
AllSpace(s) == \A i \in 1..Len(s) : IsSpace(s[i])
LStrip(s) ==
    IF AllSpace(s) THEN <<>>
    ELSE SubSeq(s, CHOOSE i \in 1..Len(s) :
                       ~IsSpace(s[i]) /\ \A j \in 1..(i - 1) : IsSpace(s[j]),
                Len(s))
RStrip(s) ==
    IF AllSpace(s) THEN <<>>
    ELSE SubSeq(s, 1, Len(s) - (CHOOSE k \in 0..(Len(s) - 1) :
                                   /\ ~IsSpace(s[Len(s) - k])
                                   /\ \A j \in (Len(s) - k + 1)..Len(s) : IsSpace(s[j])))
Strip(s) == RStrip(LStrip(s))

\* re.sub(r"\s+", " ", s): every run of whitespace becomes one space.  The
\* two halves are rewritten apart; a run that spans the cut is joined again.
RECURSIVE CollapseSpaces(_)
CollapseSpaces(s) ==
    IF s = <<>> THEN <<>>
    ELSE IF Len(s) = 1 THEN (IF IsSpace(s[1]) THEN <<" ">> ELSE s)
    ELSE LET m == Len(s) \div 2
             a == CollapseSpaces(SubSeq(s, 1, m))
             b == CollapseSpaces(SubSeq(s, m + 1, Len(s)))
         IN  IF a[Len(a)] = " " /\ b[1] = " " THEN a \o Tail(b) ELSE a \o b

RECURSIVE DigitsValue(_)
DigitsValue(s) ==
    IF s = <<>> THEN 0 ELSE 10 * DigitsValue(SubSeq(s, 1, Len(s) - 1)) + DigitVal(s[Len(s)])
AllDigits(s) == \A i \in 1..Len(s) : IsDigit(s[i])
HasSign(s) == s # <<>> /\ Head(s) \in {"+", "-"}
Unsigned(s) == IF HasSign(s) THEN Tail(s) ELSE s
Signed(s, n) == IF HasSign(s) /\ Head(s) = "-" THEN 0 - n ELSE n

\* int(text): surrounding whitespace, an optional sign, decimal digits
PyInt(raw) ==
    LET s == Strip(raw)
        d == Unsigned(s)
    IN  IF d # <<>> /\ AllDigits(d) THEN Ok(Signed(s, DigitsValue(d)))
        ELSE RaiseOther("ValueError")

\* float(text) for plain decimal notation, in FLOAT_UNIT-ths
DotAt(s) == IF \E i \in 1..Len(s) : s[i] = "." THEN CHOOSE i \in 1..Len(s) : s[i] = "." ELSE 0
PyFloat(raw) ==
    LET s == Strip(raw)
        d == Unsigned(s)
        k == DotAt(d)
        ip == IF k = 0 THEN d ELSE SubSeq(d, 1, k - 1)
        fp == IF k = 0 THEN <<>> ELSE SubSeq(d, k + 1, Len(d))
    IN  IF /\ Len(ip) + Len(fp) > 0
           /\ AllDigits(ip) /\ AllDigits(fp) /\ Len(fp) <= FracDigits
        THEN Ok(Signed(s, DigitsValue(ip) * FLOAT_UNIT
                          + DigitsValue(fp) * Pow10(FracDigits - Len(fp))))
        ELSE RaiseOther("ValueError")

\* round(x) of x = n / d, ties to even
RoundHalfEven(n, d) ==
    LET q == n \div d
        r == n % d
    IN  IF 2 * r < d THEN q
        ELSE IF 2 * r > d THEN q + 1
        ELSE IF q % 2 = 0 THEN q ELSE q + 1

(***************************************************************************)
(* Validators                                                              *)
(***************************************************************************)
\* a variant of _norm_q that does not trim
_norm_q_no_strip(q) == CollapseSpaces(q)

_norm_q(q) == CollapseSpaces(Strip(q))

QCharAllowed(c) ==
    \/ IsWordChar(c)
    \/ IsSpace(c)
    \/ c \in {"a_uml", "A_uml", "sz"}
    \/ c \in {".", ",", "-", "'", "/", "(", ")"}

validate_q(raw) ==
    LET q == _norm_q(raw)
    IN  IF ~(2 <= Len(q) /\ Len(q) <= Q_MAX_LEN)
        THEN Raise("Bitte gib einen Ort mit 2-120 Zeichen an.",
                   Some("Beispiel: Darmstadt, Hessen, DE"))
        ELSE IF ~(Len(q) >= 1 /\ \A i \in 1..Len(q) : QCharAllowed(q[i]))
        THEN Raise("Der Ort enthaelt nicht erlaubte Zeichen.",
                   Some("Erlaubt sind Buchstaben/Zahlen, Leerzeichen sowie . , - ' / ( )"))
        ELSE Ok(q)

\* a variant of parse_radius_km whose bounds are exclusive
parse_radius_km_open(raw) ==
    LET f == PyFloat(raw)
    IN  IF ~f.ok THEN Raise("Radius muss eine Zahl sein.", Some("Beispiel: 2 oder 5.5"))
        ELSE IF ~(RADIUS_MIN_KM < f.val /\ f.val < RADIUS_MAX_KM)
        THEN Raise("Radius muss zwischen 0.1 und 50 km liegen.", None)
        ELSE Ok(f.val)

\* a variant of parse_radius_km without the upper bound
parse_radius_km_no_max(raw) ==
    LET f == PyFloat(raw)
    IN  IF ~f.ok THEN Raise("Radius muss eine Zahl sein.", Some("Beispiel: 2 oder 5.5"))
        ELSE IF ~(RADIUS_MIN_KM <= f.val)
        THEN Raise("Radius muss zwischen 0.1 und 50 km liegen.", None)
        ELSE Ok(f.val)

parse_radius_km(raw) ==
    LET f == PyFloat(raw)
    IN  IF ~f.ok THEN Raise("Radius muss eine Zahl sein.", Some("Beispiel: 2 oder 5.5"))
        ELSE IF ~(RADIUS_MIN_KM <= f.val /\ f.val <= RADIUS_MAX_KM)
        THEN Raise("Radius muss zwischen 0.1 und 50 km liegen.", None)
        ELSE Ok(f.val)

\* a variant of parse_limit that range-checks the default as well
parse_limit_checked_default(raw, default) ==
    LET n == IF IsNone(raw) \/ Strip(raw[1]) = <<>> THEN Ok(default) ELSE PyInt(raw[1])
    IN  IF ~n.ok THEN Raise("Limit muss eine ganze Zahl sein.", Some("1-2000"))
        ELSE IF ~(1 <= n.val /\ n.val <= SAMPLE_MAX)
        THEN Raise("Limit muss zwischen 1 und 2000 liegen.", None)
        ELSE Ok(n.val)

parse_limit(raw, default) ==
    IF IsNone(raw) \/ Strip(raw[1]) = <<>> THEN Ok(default)
    ELSE LET n == PyInt(raw[1])
         IN  IF ~n.ok THEN Raise("Limit muss eine ganze Zahl sein.", Some("1-2000"))
             ELSE IF ~(1 <= n.val /\ n.val <= SAMPLE_MAX)
             THEN Raise("Limit muss zwischen 1 und 2000 liegen.", None)
             ELSE Ok(n.val)

S_count == <<"c", "o", "u", "n", "t">>
S_sample == <<"s", "a", "m", "p", "l", "e">>
S_boundary == <<"b", "o", "u", "n", "d", "a", "r", "y">>
S_radius == <<"r", "a", "d", "i", "u", "s">>
S_relation == <<"r", "e", "l", "a", "t", "i", "o", "n">>
S_way == <<"w", "a", "y">>
S_node == <<"n", "o", "d", "e">>

\* Python's `x or y` for an Optional str: None and "" are falsy
OrElse(raw, default) == IF IsNone(raw) \/ raw[1] = <<>> THEN default ELSE raw[1]

parse_mode(raw) ==
    LET r == Lower(Strip(OrElse(raw, <<>>)))
    IN  IF r \in {<<>>, S_count} THEN Ok("count")
        ELSE IF r = S_sample THEN Ok("sample")
        ELSE Raise("Ungueltiger Modus.", Some("Erlaubt: count, sample"))

parse_query_mode(raw) ==
    LET r == Lower(Strip(OrElse(raw, S_boundary)))
    IN  IF r = S_boundary THEN Ok("boundary")
        ELSE IF r = S_radius THEN Ok("radius")
        ELSE Raise("Ungueltiger Suchmodus.", Some("Erlaubt: boundary, radius"))

(***************************************************************************)
(* Overpass area ids                                                       *)
(***************************************************************************)
BASE == 1000 * 1000 * 1000
BigAdd(a, b) ==
    LET lo == a[2] + b[2]
    IN  IF lo >= BASE THEN <<a[1] + b[1] + 1, lo - BASE>> ELSE <<a[1] + b[1], lo>>
RELATION_OFFSET == <<3, 600000000>>
WAY_OFFSET == <<2, 400000000>>

\* a variant of _area_id_from_osm that compares the kind as given
_area_id_from_osm_exact_case(osm_type, osm_id) ==
    LET t == Get(osm_type, <<>>)
    IN  IF t = S_relation THEN Some(BigAdd(RELATION_OFFSET, osm_id))
        ELSE IF t = S_way THEN Some(BigAdd(WAY_OFFSET, osm_id))
        ELSE None

_area_id_from_osm(osm_type, osm_id) ==
    LET t == Lower(Get(osm_type, <<>>))
    IN  IF t = S_relation THEN Some(BigAdd(RELATION_OFFSET, osm_id))
        ELSE IF t = S_way THEN Some(BigAdd(WAY_OFFSET, osm_id))
        ELSE None


(***************************************************************************)
(* Upstream answers.  An HTTP exchange either raises                       *)
(* requests.RequestException (exc) or yields a status and a body; json is  *)
(* what r.json() makes of the body: "invalid" (it raises), "array" with    *)
(* its items, "object" with its optional "elements" member.                *)
(***************************************************************************)
NetFailure == [exc |-> TRUE, status |-> 0, json |-> [kind |-> "invalid"]]
Http(status, json) == [exc |-> FALSE, status |-> status, json |-> json]
JsonInvalid == [kind |-> "invalid"]
JsonArray(items) == [kind |-> "array", items |-> items]
\* a JSON object: whether it has any member at all, and its "elements" member
JsonObject(empty, elements) == [kind |-> "object", empty |-> empty, elements |-> elements]

GeocodeResult(q, display_name, lat, lon, osm_type, osm_id, geojson) ==
    [q |-> q, display_name |-> display_name, lat |-> lat, lon |-> lon,
     osm_type |-> osm_type, osm_id |-> osm_id, geojson |-> geojson]

\* The body of geocode_nominatim once the HTTP exchange r is over.
geocode_nominatim(q, r) ==
    IF r.exc THEN Raise("Geocoding ist aktuell nicht erreichbar.",
                        Some("Bitte spaeter erneut versuchen."))
    ELSE IF r.status = 429
    THEN Raise("Geocoding-Limit erreicht (Rate Limit).",
               Some("Bitte warte kurz und versuche es erneut."))
    ELSE IF r.status >= 500
    THEN Raise("Geocoding-Serverfehler.", Some("Bitte spaeter erneut versuchen."))
    ELSE IF r.status # 200
    THEN Raise("Geocoding fehlgeschlagen.", Some("HTTP " \o ToString(r.status)))
    ELSE IF r.json.kind = "invalid" THEN RaiseOther("JSONDecodeError")
    ELSE IF r.json.kind = "object"
    THEN (IF r.json.empty
          THEN Raise("Ort nicht gefunden.",
                     Some("Bitte praezisieren (z. B. Stadt, Bundesland, Land)."))
          ELSE RaiseOther("KeyError"))
    ELSE IF r.json.items = <<>>
    THEN Raise("Ort nicht gefunden.",
               Some("Bitte praezisieren (z. B. Stadt, Bundesland, Land)."))
    ELSE LET item == r.json.items[1]
             lat == IF IsNone(item.lat) THEN RaiseOther("KeyError") ELSE PyFloat(item.lat[1])
             lon == IF IsNone(item.lon) THEN RaiseOther("KeyError") ELSE PyFloat(item.lon[1])
         IN  IF ~lat.ok \/ ~lon.ok \/ IsNone(item.osm_id)
             THEN Raise("Geocoding-Antwort konnte nicht verarbeitet werden.",
                        Some("Bitte spaeter erneut versuchen."))
             ELSE Ok(GeocodeResult(q, Get(item.display_name, q), lat.val, lon.val,
                                   Get(item.osm_type, <<>>), item.osm_id[1],
                                   IF item.geojson # None /\ item.geojson[1].dict
                                   THEN Some(item.geojson[1].v) ELSE None))

_overpass_post(r) ==
    IF r.exc THEN Raise("Overpass API ist aktuell nicht erreichbar.",
                        Some("Bitte spaeter erneut versuchen."))
    ELSE IF r.status = 429
    THEN Raise("Overpass API ist ueberlastet (Rate Limit).",
               Some("Bitte warte 30-60 Sekunden und versuche es erneut."))
    ELSE IF r.status \in {502, 503, 504}
    THEN Raise("Overpass API ist aktuell ueberlastet.",
               Some("Bitte spaeter erneut versuchen."))
    ELSE IF r.status # 200
    THEN Raise("Overpass Anfrage fehlgeschlagen.", Some("HTTP " \o ToString(r.status)))
    ELSE IF r.json.kind = "invalid"
    THEN Raise("Overpass Antwort ist ungueltig.", Some("Bitte spaeter erneut versuchen."))
    ELSE Ok(r.json)

\* The body shared by overpass_count_by_area and overpass_count_by_radius.
overpass_count(r) ==
    LET data == _overpass_post(r)
    IN  IF ~data.ok THEN data
        ELSE IF data.val.kind # "object" THEN RaiseOther("AttributeError")
        ELSE LET elements == Get(data.val.elements, <<>>)
             IN  IF elements = <<>> THEN Ok(0)
                 ELSE LET tags == elements[1].tags
                          total == IF IsNone(tags) THEN None ELSE tags[1].total
                      IN  IF IsNone(total) THEN Ok(0) ELSE PyInt(total[1])

RECURSIVE SamplePoints(_)
SamplePoints(elements) ==
    IF elements = <<>> THEN <<>>
    ELSE LET el == Head(elements)
         IN  IF el.type # "node" \/ IsNone(el.lat) \/ IsNone(el.lon)
             THEN SamplePoints(Tail(elements))
             ELSE <<[lat |-> el.lat[1], lon |-> el.lon[1], id |-> el.id]>>
                  \o SamplePoints(Tail(elements))

\* The body shared by overpass_sample_by_area and overpass_sample_by_radius.
overpass_sample(r) ==
    LET data == _overpass_post(r)
    IN  IF ~data.ok THEN data
        ELSE IF data.val.kind # "object" THEN RaiseOther("AttributeError")
        ELSE Ok(SamplePoints(Get(data.val.elements, <<>>)))

geojson_featurecollection(points, boundary_geojson) ==
    [type |-> "FeatureCollection",
     features |->
        (IF IsNone(boundary_geojson) THEN <<>>
         ELSE <<[kind |-> "boundary", geometry |-> boundary_geojson[1]]>>)
        \o [i \in 1..Len(points) |->
              [kind |-> "tree", id |-> points[i].id,
               geometry |-> <<points[i].lon, points[i].lat>>]]]

(***************************************************************************)
(* functools.lru_cache: entries most recently used first.                  *)
(***************************************************************************)
GeoCacheMax == 2
CountCacheMax == 1

LruIndex(cache, key) ==
    IF \E i \in 1..Len(cache) : cache[i].key = key
    THEN CHOOSE i \in 1..Len(cache) : cache[i].key = key
    ELSE 0
LruHas(cache, key) == LruIndex(cache, key) # 0
LruKeys(cache) == {cache[i].key : i \in 1..Len(cache)}
\* a variant of LruTouch: a hit leaves the order alone (first in, first out)
LruTouch_fifo(cache, key) == cache

\* a hit moves the entry to the front
LruTouch(cache, key) ==
    LET i == LruIndex(cache, key)
    IN  <<cache[i]>> \o SubSeq(cache, 1, i - 1) \o SubSeq(cache, i + 1, Len(cache))
\* a variant of LruStore that does not look for the key again before it stores
LruStore_unchecked(cache, key, val, maxsize) ==
    IF Len(cache) >= maxsize
    THEN <<[key |-> key, val |-> val]>> \o SubSeq(cache, 1, maxsize - 1)
    ELSE <<[key |-> key, val |-> val]>> \o cache

\* storing the result of a miss: nothing when the key arrived meanwhile,
\* else the oldest entry makes room when the cache is full
LruStore(cache, key, val, maxsize) ==
    IF LruHas(cache, key) THEN cache
    ELSE IF Len(cache) >= maxsize
    THEN <<[key |-> key, val |-> val]>> \o SubSeq(cache, 1, maxsize - 1)
    ELSE <<[key |-> key, val |-> val]>> \o cache

(***************************************************************************)
(* The request handlers and run_tree_locator                               *)
(***************************************************************************)
\* request.args / request.form of one request, and the endpoint it is for
Args(ep, q, query_mode, mode, radius_km, limit) ==
    [ep |-> ep, q |-> q, query_mode |-> query_mode, mode |-> mode,
     radius_km |-> radius_km, limit |-> limit]
NoArgs == Args("", None, None, None, None, None)

\* the arguments run_tree_locator is called with
Call(q, query_mode, radius_km, mode, limit) ==
    [q |-> q, query_mode |-> query_mode, radius_km |-> radius_km, mode |-> mode,
     limit |-> limit]

\* a variant of api_args that validates radius_km whatever the query mode
api_args_radius_always(a) ==
    LET q == validate_q(Get(a.q, <<>>))
        query_mode == parse_query_mode(a.query_mode)
        mode == parse_mode(a.mode)
        radius_km == parse_radius_km(Get(a.radius_km, <<"2">>))
        limit == parse_limit(a.limit, SAMPLE_DEFAULT)
    IN  IF ~q.ok THEN q
        ELSE IF ~query_mode.ok THEN query_mode
        ELSE IF ~mode.ok THEN mode
        ELSE IF ~radius_km.ok THEN radius_km
        ELSE IF ~limit.ok THEN limit
        ELSE Ok(Call(q.val, query_mode.val,
                     IF query_mode.val = "radius" THEN Some(radius_km.val) ELSE None,
                     mode.val, limit.val))

\* api() and index(): lines 445-451 and 1129-1135
api_args(a) ==
    LET q == validate_q(Get(a.q, <<>>))
        query_mode == parse_query_mode(a.query_mode)
        mode == parse_mode(a.mode)
        radius_km == IF query_mode.val = "radius"
                     THEN parse_radius_km(Get(a.radius_km, <<"2">>))
                     ELSE Ok(0)
        limit == parse_limit(a.limit, SAMPLE_DEFAULT)
    IN  IF ~q.ok THEN q
        ELSE IF ~query_mode.ok THEN query_mode
        ELSE IF ~mode.ok THEN mode
        ELSE IF ~radius_km.ok THEN radius_km
        ELSE IF ~limit.ok THEN limit
        ELSE Ok(Call(q.val, query_mode.val,
                     IF query_mode.val = "radius" THEN Some(radius_km.val) ELSE None,
                     mode.val, limit.val))

Min(a, b) == IF a <= b THEN a ELSE b

\* a variant of api_geojson_args whose missing mode defaults like api()'s
api_geojson_args_mode_default_count(a) ==
    LET q == validate_q(Get(a.q, <<>>))
        query_mode == parse_query_mode(a.query_mode)
        mode == parse_mode(a.mode)
        radius_km == IF query_mode.val = "radius"
                     THEN parse_radius_km(Get(a.radius_km, <<"2">>))
                     ELSE Ok(0)
        limit == parse_limit(a.limit, Min(SAMPLE_DEFAULT, 500))
    IN  IF ~q.ok THEN q
        ELSE IF ~query_mode.ok THEN query_mode
        ELSE IF ~mode.ok THEN mode
        ELSE IF mode.val # "sample"
        THEN Raise("GeoJSON ist nur im sample-Modus verfuegbar.", Some("mode=sample setzen."))
        ELSE IF ~radius_km.ok THEN radius_km
        ELSE IF ~limit.ok THEN limit
        ELSE Ok(Call(q.val, query_mode.val,
                     IF query_mode.val = "radius" THEN Some(radius_km.val) ELSE None,
                     "sample", limit.val))

\* api_geojson(): lines 470-485
api_geojson_args(a) ==
    LET q == validate_q(Get(a.q, <<>>))
        query_mode == parse_query_mode(a.query_mode)
        mode == parse_mode(Some(OrElse(a.mode, S_sample)))
        radius_km == IF query_mode.val = "radius"
                     THEN parse_radius_km(Get(a.radius_km, <<"2">>))
                     ELSE Ok(0)
        limit == parse_limit(a.limit, Min(SAMPLE_DEFAULT, 500))
    IN  IF ~q.ok THEN q
        ELSE IF ~query_mode.ok THEN query_mode
        ELSE IF ~mode.ok THEN mode
        ELSE IF mode.val # "sample"
        THEN Raise("GeoJSON ist nur im sample-Modus verfuegbar.", Some("mode=sample setzen."))
        ELSE IF ~radius_km.ok THEN radius_km
        ELSE IF ~limit.ok THEN limit
        ELSE Ok(Call(q.val, query_mode.val,
                     IF query_mode.val = "radius" THEN Some(radius_km.val) ELSE None,
                     "sample", limit.val))

handler_args(a) == IF a.ep = "geojson" THEN api_geojson_args(a) ELSE api_args(a)

\* the locals of one run of run_tree_locator; hits is bookkeeping: the
\* memoized calls of this run that were served from their cache
Frame(c) ==
    [q |-> c.q, query_mode |-> c.query_mode, radius_km |-> c.radius_km,
     mode |-> c.mode, limit |-> c.limit,
     geo |-> None, area_id |-> None, used_mode |-> c.query_mode,
     radius_km_val |-> None, radius_m |-> None, tree_count |-> None, hits |-> {}]
NoFrame == Frame(Call(<<>>, "", None, "", 0))

DEFAULT_RADIUS_KM == 2 * FLOAT_UNIT

\* a variant of resolve_mode whose fallback keeps no default radius of its own
resolve_mode_default1km(f) ==
    LET geo == f.geo[1]
        area_id == IF f.query_mode = "boundary"
                   THEN _area_id_from_osm(Some(geo.osm_type), geo.osm_id)
                   ELSE None
        used_mode == IF f.query_mode = "boundary" /\ IsNone(area_id)
                     THEN "radius" ELSE f.query_mode
        radius_km_val == Get(f.radius_km, FLOAT_UNIT)
    IN  [f EXCEPT !.area_id = area_id,
                  !.used_mode = used_mode,
                  !.radius_km_val = IF used_mode = "radius" THEN Some(radius_km_val) ELSE None,
                  !.radius_m = IF used_mode = "radius"
                               THEN Some(RoundHalfEven(radius_km_val, FLOAT_UNIT \div 1000))
                               ELSE None]

\* run_tree_locator, lines 369-381
resolve_mode(f) ==
    LET geo == f.geo[1]
        area_id == IF f.query_mode = "boundary"
                   THEN _area_id_from_osm(Some(geo.osm_type), geo.osm_id)
                   ELSE None
        used_mode == IF f.query_mode = "boundary" /\ IsNone(area_id)
                     THEN "radius" ELSE f.query_mode
        radius_km_val == Get(f.radius_km, DEFAULT_RADIUS_KM)
    IN  [f EXCEPT !.area_id = area_id,
                  !.used_mode = used_mode,
                  !.radius_km_val = IF used_mode = "radius" THEN Some(radius_km_val) ELSE None,
                  !.radius_m = IF used_mode = "radius"
                               THEN Some(RoundHalfEven(radius_km_val, FLOAT_UNIT \div 1000))
                               ELSE None]

SAMPLE_GUARD == 200000

\* variants of wants_sample: one forgets the mode, one samples below the guard only
wants_sample_any_mode(f, tree_count) == ~(tree_count > SAMPLE_GUARD)
wants_sample_below_guard(f, tree_count) == f.mode # "count" /\ tree_count < SAMPLE_GUARD

\* run_tree_locator, lines 383-405: is the listing fetched after the count?
wants_sample(f, tree_count) == f.mode # "count" /\ ~(tree_count > SAMPLE_GUARD)

\* run_tree_locator, lines 409-429 (attribution and timing_ms left out)
result(f, sample) ==
    [ok |-> TRUE,
     query |-> [q |-> f.geo[1].q, display_name |-> f.geo[1].display_name,
                lat |-> f.geo[1].lat, lon |-> f.geo[1].lon,
                query_mode |-> f.used_mode, mode |-> f.mode,
                radius_km |-> f.radius_km_val,
                limit |-> IF f.mode = "sample" THEN Some(f.limit) ELSE None],
     tree_count |-> f.tree_count[1],
     sample |-> sample,
     boundary_geojson |-> f.geo[1].geojson]

UNEXPECTED == Raise("Unerwarteter Fehler.", Some("Bitte spaeter erneut versuchen."))
Envelope(e) == [ok |-> FALSE, error |-> e.message, hint |-> e.hint]

\* what the endpoint answers when the work raised e
error_response(ep, e) ==
    IF ep = "index"
    THEN [status |-> 200, kind |-> "html",
          body |-> [result |-> None,
                    error |-> IF e.user THEN e.message ELSE UNEXPECTED.message,
                    hint |-> IF e.user THEN e.hint ELSE UNEXPECTED.hint]]
    ELSE IF e.user THEN [status |-> 400, kind |-> "json", body |-> Envelope(e)]
    ELSE [status |-> 500, kind |-> "json", body |-> Envelope(UNEXPECTED)]

\* what the endpoint answers when run_tree_locator returned res
success_response(ep, res) ==
    IF ep = "index"
    THEN [status |-> 200, kind |-> "html",
          body |-> [result |-> Some(res), error |-> "", hint |-> None]]
    ELSE IF ep = "geojson"
    THEN [status |-> 200, kind |-> "geojson",
          body |-> geojson_featurecollection(res.sample, res.boundary_geojson)]
    ELSE [status |-> 200, kind |-> "json", body |-> res]
NoResponse == [status |-> 0, kind |-> "", body |-> <<>>]

\* the upstream requests a run issues
NominatimRequest(q) == [service |-> "nominatim", op |-> "search", key |-> q, limit |-> 1]
OverpassRequest(op, f) ==
    [service |-> "overpass", op |-> op,
     key |-> IF f.used_mode = "boundary" THEN <<"area", f.area_id[1]>>
             ELSE <<"around", f.radius_m[1], f.geo[1].lat, f.geo[1].lon>>,
     limit |-> IF op = "sample" THEN f.limit ELSE 0]

\* the key of the memoized count call
count_key(f) ==
    IF f.used_mode = "boundary" THEN f.area_id[1]
    ELSE <<f.geo[1].lat, f.geo[1].lon, f.radius_m[1]>>

(***************************************************************************)
(* The inputs of the model: request parameters and upstream answers        *)
(***************************************************************************)
Place1 == <<"a", "b">>
Place2 == <<"c", "d">>
Place3 == <<"e", "e">>

\* one request at a time: every endpoint, two places, both shapes and modes
SeqArgs ==
    {Args(e, Some(q), qm, m, None, None) :
        e \in {"api", "geojson", "index"}, q \in {Place1, Place2},
        qm \in {None, Some(S_radius)}, m \in {None, Some(S_sample)}}

\* overlapping requests: worker 1 counts in three places, worker 2 lists one of them
ConcArgs(t) ==
    IF t = 1
    THEN {Args("api", Some(q), None, None, None, None) : q \in {Place1, Place2, Place3}}
    ELSE {Args("api", Some(Place1), None, Some(S_sample), None, None)}

\* one request with every combination of raw parameter texts
Rep(c, n) == [i \in 1..n |-> c]
QInputs ==
    {None, Some(<<>>), Some(Place1), Some(<<" ", "a", "b", "\t", " ">>),
     Some(<<"a", ";">>), Some(Rep("a", Q_MAX_LEN + 1))}
QueryModeInputs ==
    {None, Some(S_radius), Some(<<"R", "A", "D", "I", "U", "S">>), Some(<<"x">>)}
ModeInputs ==
    {None, Some(<<>>), Some(S_count), Some(<<"C", "O", "U", "N", "T">>), Some(S_sample),
     Some(<<"x">>)}
RadiusInputs ==
    {None, Some(<<"1", "0", "0">>), Some(<<"0", ".", "1">>), Some(<<"5", "0">>),
     Some(<<"0", ".", "0", "9">>), Some(<<"a", "b", "c">>)}
LimitInputs ==
    {None, Some(<<>>), Some(<<"1">>), Some(<<"2", "0", "0", "0">>), Some(<<"2", "0", "0", "1">>),
     Some(<<"x">>)}
AllArgs ==
    {Args(e, q, qm, m, r, l) :
        e \in {"api", "geojson", "index"}, q \in QInputs, qm \in QueryModeInputs,
        m \in ModeInputs, r \in RadiusInputs, l \in LimitInputs}

GeoItem(lat, lon, osm_type, osm_id, display_name, geojson) ==
    [lat |-> lat, lon |-> lon, osm_type |-> osm_type, osm_id |-> osm_id,
     display_name |-> display_name, geojson |-> geojson]
ItemRelation ==
    GeoItem(Some(<<"1">>), Some(<<"1">>), Some(S_relation), Some(<<0, 1>>),
            Some(<<"D">>), Some([dict |-> TRUE, v |-> "polygon"]))
ItemWay ==
    GeoItem(Some(<<"1">>), Some(<<"1">>), Some(S_way), Some(<<0, 1>>),
            Some(<<"D">>), Some([dict |-> TRUE, v |-> "polygon"]))
ItemNode ==
    GeoItem(Some(<<"2">>), Some(<<"2">>), Some(S_node), Some(<<0, 2>>),
            None, Some([dict |-> FALSE, v |-> "text"]))
GoodItems == {ItemRelation, ItemWay, ItemNode}
BadItems ==
    {[ItemNode EXCEPT !.lat = None], [ItemNode EXCEPT !.lon = Some(<<"x">>)],
     [ItemRelation EXCEPT !.osm_id = None]}

ErrorAnswers ==
    {NetFailure} \cup {Http(st, JsonInvalid) : st \in {429, 500, 502, 503, 504, 404}}
    \cup {Http(200, JsonInvalid), Http(200, JsonArray(<<>>))}

GeoAnswers ==
    ErrorAnswers
    \cup {Http(200, JsonObject(TRUE, None)), Http(200, JsonObject(FALSE, None))}
    \cup {Http(200, JsonArray(<<i>>)) : i \in GoodItems \cup BadItems}

CountElement(total) == [tags |-> Some([total |-> total])]
CountAnswers ==
    ErrorAnswers
    \cup {Http(200, JsonObject(TRUE, None)), Http(200, JsonObject(FALSE, Some(<<>>))),
          Http(200, JsonObject(FALSE, Some(<<[tags |-> None]>>)))}
    \cup {Http(200, JsonObject(FALSE, Some(<<CountElement(t)>>))) :
            t \in {None, Some(<<"2", "0", "0", "0", "0", "0">>),
                   Some(<<"2", "0", "0", "0", "0", "1">>), Some(<<"x">>)}}

MaxElements == 2
SampleElements ==
    {[type |-> "node", lat |-> Some(1), lon |-> Some(1), id |-> 11],
     [type |-> "node", lat |-> Some(2), lon |-> Some(2), id |-> 12],
     [type |-> "node", lat |-> None, lon |-> Some(3), id |-> 13],
     [type |-> "way", lat |-> Some(4), lon |-> Some(4), id |-> 14]}
SeqsUpTo(S, n) == UNION {[1..k -> S] : k \in 0..n}
SampleAnswers ==
    ErrorAnswers
    \cup {Http(200, JsonObject(TRUE, None))}
    \cup {Http(200, JsonObject(FALSE, Some(els))) : els \in SeqsUpTo(SampleElements, MaxElements)}

(***************************************************************************)
(* State                                                                   *)
(***************************************************************************)
VARIABLES
    geoCache,       \* lru_cache of geocode_nominatim
    areaCache,      \* lru_cache of overpass_count_by_area
    radiusCache,    \* lru_cache of overpass_count_by_radius
    pc,             \* per worker thread: where its request stands
    args,           \* per thread: the request parameters not yet parsed
    ep,             \* per thread: the endpoint of its request
    frame,          \* per thread: the locals of run_tree_locator
    sent,           \* per thread: the upstream requests its request issued
    resp,           \* per thread: the HTTP response, once there is one
    served,         \* requests accepted so far
    geoRecent,      \* history: the places geocode_nominatim looked up in or stored
                    \* into its cache, latest first, each with the result stored
    geoReturned,    \* history: the places geocode_nominatim returned a result
                    \* for, latest first, each with the result last returned
    got,            \* history, per thread: for each upstream request answered so
                    \* far, whether the call that issued it returned normally
    produced,       \* history, per memoized function: the calls that went upstream
                    \* and have ended, each with its key and what it returned
    countRecent     \* history, per count function: the keys it looked up in or stored
                    \* into its cache, latest first, each with the count stored

VARIABLE
    probe           \* a direct call of one of the pure functions: its arguments, its outcome

vars == <<geoCache, areaCache, radiusCache, pc, args, ep, frame, sent, resp, served,
          geoRecent, geoReturned, got, produced, countRecent, probe>>
history == <<geoRecent, geoReturned>>
caches == <<geoCache, areaCache, radiusCache>>

Threads == {1, 2}
MaxRequests == 2
MaxConcRequests == 4

\* the record of a call that went upstream for key and ended with r
Outcome(key, r) == [key |-> key, ok |-> r.ok, val |-> IF r.ok THEN Some(r.val) ELSE None]
NothingProduced == [geocode |-> {}, by_area |-> {}, by_radius |-> {}]
\* the memoized count function a run calls
CountFn(f) == IF f.used_mode = "boundary" THEN "by_area" ELSE "by_radius"

NoProbe == [fn |-> "", in |-> <<>>, out |-> <<>>]

Idle ==
    /\ pc = [t \in Threads |-> "idle"]
    /\ args = [t \in Threads |-> NoArgs]
    /\ ep = [t \in Threads |-> ""]
    /\ frame = [t \in Threads |-> NoFrame]
    /\ sent = [t \in Threads |-> <<>>]
    /\ resp = [t \in Threads |-> NoResponse]
    /\ got = [t \in Threads |-> <<>>]
    /\ served = 0
    /\ probe = NoProbe

Init ==
    /\ Idle
    /\ geoCache = <<>>
    /\ areaCache = <<>>
    /\ radiusCache = <<>>
    /\ geoRecent = <<>>
    /\ geoReturned = <<>>
    /\ produced = NothingProduced
    /\ countRecent = [by_area |-> <<>>, by_radius |-> <<>>]

\* a history with key moved (or added) to the front, carrying val
Latest(h, key, val) ==
    <<[key |-> key, val |-> val]>> \o SelectSeq(h, LAMBDA e : e.key # key)
Entry(h, key) == h[CHOOSE i \in 1..Len(h) : h[i].key = key]

\* the request is answered with r
Respond(t, r) ==
    /\ pc' = [pc EXCEPT ![t] = "done"]
    /\ resp' = [resp EXCEPT ![t] = r]

\* a request reaches a free worker
Arrive(t, inputs, limit) ==
    /\ pc[t] = "idle"
    /\ served < limit
    /\ \E a \in inputs :
         /\ args' = [args EXCEPT ![t] = a]
         /\ ep' = [ep EXCEPT ![t] = a.ep]
    /\ pc' = [pc EXCEPT ![t] = "recv"]
    /\ served' = served + 1
    /\ UNCHANGED <<caches, frame, sent, resp, history, got, produced, countRecent, probe>>

\* the handler parses the parameters and calls run_tree_locator, which calls
\* geocode_nominatim: a cache hit returns at once, a miss sends the request
Handle(t) ==
    /\ pc[t] = "recv"
    /\ args' = [args EXCEPT ![t] = NoArgs]
    /\ LET p == handler_args(args[t])
       IN  IF ~p.ok
           THEN /\ Respond(t, error_response(ep[t], p))
                /\ UNCHANGED <<caches, frame, sent, history>>
           ELSE IF LruHas(geoCache, p.val.q)
           THEN LET g == geoCache[LruIndex(geoCache, p.val.q)].val
                IN  /\ geoCache' = LruTouch(geoCache, p.val.q)
                    /\ frame' = [frame EXCEPT ![t] =
                                   [Frame(p.val) EXCEPT !.geo = Some(g), !.hits = {"geocode"}]]
                    /\ geoRecent' = Latest(geoRecent, p.val.q, Entry(geoRecent, p.val.q).val)
                    /\ geoReturned' = Latest(geoReturned, p.val.q, g)
                    /\ pc' = [pc EXCEPT ![t] = "count"]
                    /\ UNCHANGED <<areaCache, radiusCache, sent, resp>>
           ELSE /\ frame' = [frame EXCEPT ![t] = Frame(p.val)]
                /\ sent' = [sent EXCEPT ![t] = Append(@, NominatimRequest(p.val.q))]
                /\ pc' = [pc EXCEPT ![t] = "geo_wait"]
                /\ UNCHANGED <<caches, resp, history>>
    /\ UNCHANGED <<ep, served, got, produced, countRecent, probe>>

\* Nominatim answers (or the exchange fails); a result is stored in the cache
GeocodeReturn(t, answers) ==
    /\ pc[t] = "geo_wait"
    /\ \E r \in answers :
         LET g == geocode_nominatim(frame[t].q, r)
         IN  /\ got' = [got EXCEPT ![t] = Append(@, g.ok)]
             /\ produced' = [produced EXCEPT !.geocode = @ \cup {Outcome(frame[t].q, g)}]
             /\ IF g.ok
                THEN /\ geoCache' = LruStore(geoCache, frame[t].q, g.val, GeoCacheMax)
                     /\ geoRecent' = IF \E i \in 1..Len(geoCache) : geoCache[i].key = frame[t].q
                                     THEN geoRecent
                                     ELSE Latest(geoRecent, frame[t].q, g.val)
                     /\ geoReturned' = Latest(geoReturned, frame[t].q, g.val)
                     /\ frame' = [frame EXCEPT ![t].geo = Some(g.val)]
                     /\ pc' = [pc EXCEPT ![t] = "count"]
                     /\ UNCHANGED resp
                ELSE /\ Respond(t, error_response(ep[t], g))
                     /\ UNCHANGED <<geoCache, history, frame>>
    /\ UNCHANGED <<areaCache, radiusCache, args, ep, sent, served, countRecent, probe>>

\* after the count: answer, or send the listing query
AfterCount(t, f, sent_t) ==
    IF wants_sample(f, f.tree_count[1])
    THEN /\ sent' = [sent EXCEPT ![t] = Append(sent_t, OverpassRequest("sample", f))]
         /\ frame' = [frame EXCEPT ![t] = f]
         /\ pc' = [pc EXCEPT ![t] = "sample_wait"]
         /\ UNCHANGED resp
    ELSE /\ sent' = [sent EXCEPT ![t] = sent_t]
         /\ frame' = [frame EXCEPT ![t] = f]
         /\ Respond(t, success_response(ep[t], result(f, <<>>)))

\* a variant of SetCountCache that never stores
SetCountCache_skip(f, c) == UNCHANGED <<areaCache, radiusCache>>

CountCache(f) == IF f.used_mode = "boundary" THEN areaCache ELSE radiusCache
SetCountCache(f, c) ==
    IF f.used_mode = "boundary"
    THEN areaCache' = c /\ UNCHANGED radiusCache
    ELSE radiusCache' = c /\ UNCHANGED areaCache

\* a variant of CountCall that sends the listing query along with the count query
CountCall_fanout(t) ==
    /\ pc[t] = "count"
    /\ LET f == resolve_mode(frame[t])
           k == count_key(f)
       IN  IF f.mode # "count" /\ f.limit > SAMPLE_MAX
           THEN /\ Respond(t, error_response(ep[t], Raise("Limit zu hoch. Maximal 2000.", None)))
                /\ UNCHANGED <<areaCache, radiusCache, frame, sent, countRecent>>
           ELSE IF LruHas(CountCache(f), k)
           THEN /\ SetCountCache(f, LruTouch(CountCache(f), k))
                /\ countRecent' = [countRecent EXCEPT ![CountFn(f)] =
                                     Latest(@, k, Entry(@, k).val)]
                /\ AfterCount(t,
                      [f EXCEPT !.tree_count = Some(CountCache(f)[LruIndex(CountCache(f), k)].val),
                                !.hits = @ \cup {"count"}],
                      sent[t])
           ELSE /\ frame' = [frame EXCEPT ![t] = f]
                /\ sent' = [sent EXCEPT ![t] =
                              IF f.mode = "count" THEN Append(@, OverpassRequest("count", f))
                              ELSE @ \o <<OverpassRequest("count", f), OverpassRequest("sample", f)>>]
                /\ pc' = [pc EXCEPT ![t] = "count_wait"]
                /\ UNCHANGED <<areaCache, radiusCache, resp, countRecent>>
    /\ UNCHANGED <<geoCache, args, ep, served, history, got, produced, probe>>

\* run_tree_locator goes on to the (memoized) count call
CountCall(t) ==
    /\ pc[t] = "count"
    /\ LET f == resolve_mode(frame[t])
           k == count_key(f)
       IN  IF f.mode # "count" /\ f.limit > SAMPLE_MAX
           THEN /\ Respond(t, error_response(ep[t], Raise("Limit zu hoch. Maximal 2000.", None)))
                /\ UNCHANGED <<areaCache, radiusCache, frame, sent, countRecent>>
           ELSE IF LruHas(CountCache(f), k)
           THEN /\ SetCountCache(f, LruTouch(CountCache(f), k))
                /\ countRecent' = [countRecent EXCEPT ![CountFn(f)] =
                                     Latest(@, k, Entry(@, k).val)]
                /\ AfterCount(t,
                      [f EXCEPT !.tree_count = Some(CountCache(f)[LruIndex(CountCache(f), k)].val),
                                !.hits = @ \cup {"count"}],
                      sent[t])
           ELSE /\ frame' = [frame EXCEPT ![t] = f]
                /\ sent' = [sent EXCEPT ![t] = Append(@, OverpassRequest("count", f))]
                /\ pc' = [pc EXCEPT ![t] = "count_wait"]
                /\ UNCHANGED <<areaCache, radiusCache, resp, countRecent>>
    /\ UNCHANGED <<geoCache, args, ep, served, history, got, produced, probe>>

\* a variant of CountReturn that keeps a failed count in the cache as no trees
CountReturn_failure_kept(t, answers) ==
    /\ pc[t] = "count_wait"
    /\ \E r \in answers :
         LET c == overpass_count(r)
             f == frame[t]
         IN  /\ got' = [got EXCEPT ![t] = Append(@, c.ok)]
             /\ produced' = [produced EXCEPT ![CountFn(f)] = @ \cup {Outcome(count_key(f), c)}]
             /\ IF c.ok
                THEN /\ SetCountCache(f, LruStore(CountCache(f), count_key(f), c.val, CountCacheMax))
                     /\ countRecent' = IF LruHas(CountCache(f), count_key(f))
                                       THEN countRecent
                                       ELSE [countRecent EXCEPT ![CountFn(f)] =
                                               Latest(@, count_key(f), c.val)]
                     /\ AfterCount(t, [f EXCEPT !.tree_count = Some(c.val)], sent[t])
                ELSE /\ Respond(t, error_response(ep[t], c))
                     /\ SetCountCache(f, LruStore(CountCache(f), count_key(f), 0, CountCacheMax))
                     /\ UNCHANGED <<frame, sent, countRecent>>
    /\ UNCHANGED <<geoCache, args, ep, served, history, probe>>

\* Overpass answers the count query
CountReturn(t, answers) ==
    /\ pc[t] = "count_wait"
    /\ \E r \in answers :
         LET c == overpass_count(r)
             f == frame[t]
         IN  /\ got' = [got EXCEPT ![t] = Append(@, c.ok)]
             /\ produced' = [produced EXCEPT ![CountFn(f)] = @ \cup {Outcome(count_key(f), c)}]
             /\ IF c.ok
                THEN /\ SetCountCache(f, LruStore(CountCache(f), count_key(f), c.val, CountCacheMax))
                     /\ countRecent' = IF LruHas(CountCache(f), count_key(f))
                                       THEN countRecent
                                       ELSE [countRecent EXCEPT ![CountFn(f)] =
                                               Latest(@, count_key(f), c.val)]
                     /\ AfterCount(t, [f EXCEPT !.tree_count = Some(c.val)], sent[t])
                ELSE /\ Respond(t, error_response(ep[t], c))
                     /\ UNCHANGED <<areaCache, radiusCache, frame, sent, countRecent>>
    /\ UNCHANGED <<geoCache, args, ep, served, history, probe>>

\* a variant of SampleReturn that answers with the count when the listing fails
SampleReturn_partial(t, answers) ==
    /\ pc[t] = "sample_wait"
    /\ \E r \in answers :
         LET s == overpass_sample(r)
         IN  /\ got' = [got EXCEPT ![t] = Append(@, s.ok)]
             /\ Respond(t, success_response(ep[t],
                               result(frame[t], IF s.ok THEN s.val ELSE <<>>)))
    /\ UNCHANGED <<caches, args, ep, frame, sent, served, history, produced, countRecent, probe>>

\* Overpass answers the listing query
SampleReturn(t, answers) ==
    /\ pc[t] = "sample_wait"
    /\ \E r \in answers :
         LET s == overpass_sample(r)
         IN  /\ got' = [got EXCEPT ![t] = Append(@, s.ok)]
             /\ IF s.ok
                THEN Respond(t, success_response(ep[t], result(frame[t], s.val)))
                ELSE Respond(t, error_response(ep[t], s))
    /\ UNCHANGED <<caches, args, ep, frame, sent, served, history, produced, countRecent, probe>>

\* the response leaves; the worker is free again
Deliver(t) ==
    /\ pc[t] = "done"
    /\ pc' = [pc EXCEPT ![t] = "idle"]
    /\ ep' = [ep EXCEPT ![t] = ""]
    /\ frame' = [frame EXCEPT ![t] = NoFrame]
    /\ sent' = [sent EXCEPT ![t] = <<>>]
    /\ resp' = [resp EXCEPT ![t] = NoResponse]
    /\ got' = [got EXCEPT ![t] = <<>>]
    /\ UNCHANGED <<caches, args, served, history, produced, countRecent, probe>>

Next ==
    \/ Arrive(1, SeqArgs, MaxRequests)
    \/ Handle(1)
    \/ GeocodeReturn(1, GeoAnswers)
    \/ CountCall(1)
    \/ CountReturn(1, CountAnswers)
    \/ SampleReturn(1, SampleAnswers)
    \/ Deliver(1)

Spec == Init /\ [][Next]_vars

(***************************************************************************)
(* One request with arbitrary parameter texts, the caches empty or already *)
(* holding a place and its count; or one direct call of a pure function.   *)
(***************************************************************************)
WarmGeo == geocode_nominatim(Place1, Http(200, JsonArray(<<ItemRelation>>))).val
WarmGeoCache == <<[key |-> Place1, val |-> WarmGeo]>>
WarmAreaCache == <<[key |-> BigAdd(RELATION_OFFSET, <<0, 1>>), val |-> SAMPLE_GUARD + 1]>>

InitInputs ==
    /\ Idle
    /\ radiusCache = <<>>
    /\ \/ /\ geoCache = <<>>
          /\ areaCache = <<>>
       \/ /\ geoCache = WarmGeoCache
          /\ areaCache = WarmAreaCache
    /\ geoRecent = geoCache
    /\ geoReturned = geoCache
    /\ produced = [geocode |-> {[key |-> geoCache[i].key, ok |-> TRUE, val |-> Some(geoCache[i].val)] :
                                    i \in 1..Len(geoCache)},
                   by_area |-> {[key |-> areaCache[i].key, ok |-> TRUE, val |-> Some(areaCache[i].val)] :
                                    i \in 1..Len(areaCache)},
                   by_radius |-> {}]
    /\ countRecent = [by_area |-> areaCache, by_radius |-> <<>>]

OsmTypeInputs ==
    {None, Some(<<>>), Some(S_relation), Some(<<"R", "e", "l", "a", "t", "i", "o", "n">>),
     Some(<<"R", "E", "L", "A", "T", "I", "O", "N">>), Some(S_way), Some(<<"W", "A", "Y">>),
     Some(<<"W", "a", "y">>), Some(S_node), Some(<<"N", "o", "d", "e">>),
     Some(<<"w", "a">>), Some(<<" ", "w", "a", "y">>), Some(<<"r", "e", "l">>)}
OsmIdInputs ==
    {<<0, 0>>, <<0, 1>>, <<0, 62422>>, <<0, 399999999>>, <<0, 400000000>>, <<0, 599999999>>,
     <<0, 600000000>>, <<0, 999999999>>, <<1, 200000000>>, <<12, 345678901>>}
DefaultInputs == {SAMPLE_DEFAULT, 0, SAMPLE_MAX + 1, 0 - 1, 1}

ProbeAreaId ==
    /\ probe = NoProbe /\ served = 0
    /\ \E osm_type \in OsmTypeInputs, osm_id \in OsmIdInputs :
         probe' = [fn |-> "_area_id_from_osm", in |-> <<osm_type, osm_id>>,
                   out |-> _area_id_from_osm(osm_type, osm_id)]
    /\ UNCHANGED <<caches, pc, args, ep, frame, sent, resp, served, history, got, produced, countRecent>>

ProbeLimit ==
    /\ probe = NoProbe /\ served = 0
    /\ \E raw \in LimitInputs \cup {Some(<<"0">>),
                                    Some(<<" ", "7", " ">>), Some(<<"+", "5">>),
                                    Some(<<"-", "1">>), Some(<<"1", ".", "5">>),
                                    Some(<<"\t", " ">>), Some(<<" ">>),
                                    Some(<<"2", "0", "0", "0", "0", "0">>)},
          default \in DefaultInputs :
         probe' = [fn |-> "parse_limit", in |-> <<raw, default>>,
                   out |-> parse_limit(raw, default)]
    /\ UNCHANGED <<caches, pc, args, ep, frame, sent, resp, served, history, got, produced, countRecent>>

RadiusTexts ==
    {<<>>, <<"0">>, <<"2">>, <<"5", ".", "5">>, <<" ", "2", " ">>, <<"+", "2">>, <<"-", "1">>,
     <<"0", ".", "1">>, <<".", "1">>, <<"0", ".", "1", "0">>, <<"0", ".", "0", "9">>,
     <<"0", ".", "0", "9", "9", "9">>, <<"0", ".", "1", "0", "0", "1">>,
     <<"5", "0">>, <<"5", "0", ".">>, <<"5", "0", ".", "0">>, <<"5", "0", ".", "0", "0", "0", "1">>,
     <<"5", "0", ".", "0", "1">>, <<"4", "9", ".", "9", "9", "9", "9">>, <<"1", "0", "0">>,
     <<"a", "b", "c">>, <<"2", ",", "5">>, <<"1", ".", "2", ".", "3">>, <<".">>, <<"-">>}

ProbeRadius ==
    /\ probe = NoProbe /\ served = 0
    /\ \E raw \in RadiusTexts :
         probe' = [fn |-> "parse_radius_km", in |-> <<raw>>, out |-> parse_radius_km(raw)]
    /\ UNCHANGED <<caches, pc, args, ep, frame, sent, resp, served, history, got, produced, countRecent>>

QTexts ==
    {<<>>, <<"a">>, <<"a", "b">>, <<" ", "a", "b", "\t", " ">>, <<"a", " ", " ", "b">>,
     <<"\n", "a", " ", "\t", "\n", " ", "b", "\n">>, <<" ", "a", " ">>, <<" ", " ", " ">>,
     <<"a", "_">>, <<"_", "_">>, <<"a", ";">>, <<"a", "\"", "b">>, <<"a", "'", "b">>,
     <<"S", "t", ".", " ", "(", "a", ")", "/", "b", "-", "c", ",", "1">>,
     <<"A_uml", "a_uml", "sz">>, <<"e_acute", "a">>, <<"1", "2">>, <<"a", "<", "b">>,
     Rep("a", Q_MAX_LEN), Rep("a", Q_MAX_LEN + 1),
     <<" ", " ">> \o Rep("a", Q_MAX_LEN) \o <<"\t">>,
     Rep("a", Q_MAX_LEN - 1) \o <<" ", " ", "b">>}

\* validate_q on a text and, when that succeeds, on its result
ProbeQ ==
    /\ probe = NoProbe /\ served = 0
    /\ \E raw \in QTexts :
         LET p == validate_q(raw)
         IN  probe' = [fn |-> "validate_q", in |-> <<raw>>, out |-> p,
                       again |-> IF p.ok THEN Some(validate_q(p.val)) ELSE None]
    /\ UNCHANGED <<caches, pc, args, ep, frame, sent, resp, served, history, got, produced, countRecent>>

ModeTexts ==
    {None, Some(<<>>), Some(<<" ">>), Some(<<"\t", " ">>),
     Some(S_count), Some(<<" ", "C", "O", "U", "N", "T", " ">>), Some(S_sample),
     Some(<<"S", "a", "m", "p", "l", "e">>), Some(<<"c", "o", "u", "n", "t", "s">>),
     Some(S_boundary), Some(<<"B", "o", "u", "n", "d", "a", "r", "y", " ">>),
     Some(S_radius), Some(<<"R", "A", "D", "I", "U", "S">>),
     Some(<<"r", "a", "d", " ", "i", "u", "s">>)}

\* the two mode parsers on one text
ProbeModes ==
    /\ probe = NoProbe /\ served = 0
    /\ \E raw \in ModeTexts :
         probe' = [fn |-> "parse_mode", in |-> <<raw>>,
                   out |-> [mode |-> parse_mode(raw), query_mode |-> parse_query_mode(raw)]]
    /\ UNCHANGED <<caches, pc, args, ep, frame, sent, resp, served, history, got, produced, countRecent>>

GeocodeExchanges ==
    GeoAnswers
        \cup {Http(st, JsonArray(<<ItemRelation>>)) : st \in {201, 204, 301, 403, 499, 501, 599}}
        \cup {Http(200, JsonArray(<<ItemNode, ItemRelation>>)),
              Http(200, JsonArray(<<[ItemRelation EXCEPT !.osm_id = None], ItemWay>>)),
              Http(200, JsonArray(<<[ItemWay EXCEPT !.osm_type = None]>>))}

ProbeGeocode ==
    /\ probe = NoProbe /\ served = 0
    /\ \E q \in {Place1, Place2}, r \in GeocodeExchanges :
         probe' = [fn |-> "geocode_nominatim", in |-> <<q, r>>, out |-> geocode_nominatim(q, r)]
    /\ UNCHANGED <<caches, pc, args, ep, frame, sent, resp, served, history, got, produced, countRecent>>

\* overpass_sample_by_area / _by_radius called with a limit: the limit goes
\* into the query text (out body <limit>), the result comes from the answer
ProbeSample ==
    /\ probe = NoProbe /\ served = 0
    /\ \E limit \in {1, 2, SAMPLE_MAX}, r \in SampleAnswers :
         probe' = [fn |-> "overpass_sample", in |-> <<limit, r>>, out |-> overpass_sample(r)]
    /\ UNCHANGED <<caches, pc, args, ep, frame, sent, resp, served, history, got, produced, countRecent>>

NextInputs ==
    \/ probe = NoProbe /\ Arrive(1, AllArgs, 1)
    \/ Handle(1)
    \/ GeocodeReturn(1, GeoAnswers)
    \/ CountCall(1)
    \/ CountReturn(1, CountAnswers)
    \/ SampleReturn(1, SampleAnswers)
    \/ Deliver(1)
    \/ ProbeRadius
    \/ ProbeQ
    \/ ProbeModes
    \/ ProbeGeocode
    \/ ProbeSample
    \/ ProbeAreaId
    \/ ProbeLimit

SpecInputs == InitInputs /\ [][NextInputs]_vars

(***************************************************************************)
(* Requests one after another that meet again in the caches: two places,   *)
(* every endpoint, both modes and both shapes of query.                    *)
(***************************************************************************)
MaxCacheRequests == 4

CacheArgs ==
    {Args("api", Some(Place1), None, None, None, None),
     Args("geojson", Some(Place1), None, None, None, None),
     Args("index", Some(Place2), None, None, None, None),
     Args("api", Some(Place2), None, Some(S_sample), None, None),
     Args("index", Some(Place1), Some(S_radius), Some(S_sample), None, None),
     Args("api", Some(Place2), Some(S_radius), None, None, None)}

\* Place1 is a relation, Place2 a way at the same point; or the call fails
CacheGeoAnswers(q) ==
    ErrorAnswers
        \cup {Http(200, JsonArray(<<[ItemNode EXCEPT !.lat = None]>>)),
              Http(200, JsonArray(<<IF q = Place1 THEN ItemRelation ELSE ItemWay>>))}

\* the relation's area holds no tree, the way's area 7 or 8, the circle more
\* than the listing guard allows
CacheCountAnswers(f) ==
    ErrorAnswers
        \cup {Http(200, JsonObject(FALSE, Some(<<CountElement(Some(<<"x">>))>>)))}
        \cup (IF f.used_mode = "radius"
              THEN {Http(200, JsonObject(FALSE,
                            Some(<<CountElement(Some(<<"2", "0", "0", "0", "0", "1">>))>>)))}
              ELSE IF f.area_id = _area_id_from_osm(Some(S_relation), ItemRelation.osm_id[1])
              THEN {Http(200, JsonObject(FALSE, Some(<<>>)))}
              ELSE {Http(200, JsonObject(FALSE, Some(<<CountElement(Some(<<"7">>))>>))),
                    Http(200, JsonObject(FALSE, Some(<<CountElement(Some(<<"8">>))>>)))})

CacheSampleAnswers ==
    {NetFailure,
     Http(200, JsonObject(FALSE, Some(<<[type |-> "node", lat |-> Some(1), lon |-> Some(1), id |-> 11]>>)))}

NextCache ==
    \/ Arrive(1, CacheArgs, MaxCacheRequests)
    \/ Handle(1)
    \/ GeocodeReturn(1, CacheGeoAnswers(frame[1].q))
    \/ CountCall(1)
    \/ CountReturn(1, CacheCountAnswers(frame[1]))
    \/ SampleReturn(1, CacheSampleAnswers)
    \/ Deliver(1)

SpecCache == Init /\ [][NextCache]_vars

(***************************************************************************)
(* Properties of one request                                               *)
(***************************************************************************)
Running(t) == pc[t] \in {"geo_wait", "count", "count_wait", "sample_wait", "done"}
Answered(t) == pc[t] = "done"
\* the result dict a success response carries (the GeoJSON download has none)
HasResult(t) ==
    /\ Answered(t)
    /\ \/ ep[t] = "api" /\ resp[t].status = 200
       \/ ep[t] = "index" /\ resp[t].body.result # None
ResultOf(t) == IF ep[t] = "index" THEN resp[t].body.result[1] ELSE resp[t].body
Succeeded(t) ==
    /\ Answered(t)
    /\ IF ep[t] = "index" THEN resp[t].body.result # None ELSE resp[t].status = 200
Failed(t) == Answered(t) /\ ~Succeeded(t)
\* the points a success response lists
SampleOf(t) ==
    IF ep[t] = "geojson"
    THEN SelectSeq(resp[t].body.features, LAMBDA x : x.kind = "tree")
    ELSE ResultOf(t).sample
Sent(t, op) == {i \in 1..Len(sent[t]) : sent[t][i].op = op}
Overpass(t) == {i \in 1..Len(sent[t]) : sent[t][i].service = "overpass"}
AreaDerivable(g) == Lower(g.osm_type) \in {S_relation, S_way}

\* C1: a boundary request queries by area only when the geocoded entity is a
\* relation or a way; otherwise every spatial query it issues is a radius
\* query around the geocoded point with the supplied radius or 2000 m, the
\* success response reports query_mode "radius" and that radius (2.0 km by
\* default), and a failure, if any, is the failure of such a query.
C1_BoundaryFallback ==
    \A t \in Threads :
        (frame[t].query_mode = "boundary" /\ frame[t].geo # None) =>
            LET g == frame[t].geo[1]
                km == IF IsNone(frame[t].radius_km) THEN 2 * FLOAT_UNIT
                      ELSE frame[t].radius_km[1]
                m == IF IsNone(frame[t].radius_km) THEN 2000
                     ELSE frame[t].radius_km[1] \div (FLOAT_UNIT \div 1000)
            IN  /\ \A i \in Overpass(t) :
                      IF AreaDerivable(g)
                      THEN sent[t][i].key[1] = "area"
                      ELSE sent[t][i].key = <<"around", m, g.lat, g.lon>>
                /\ (HasResult(t) /\ ~AreaDerivable(g)) =>
                      /\ ResultOf(t).query.query_mode = "radius"
                      /\ ResultOf(t).query.radius_km = Some(km)
                /\ (HasResult(t) /\ AreaDerivable(g)) =>
                      ResultOf(t).query.query_mode = "boundary"
                /\ (Failed(t) /\ ~AreaDerivable(g)) =>
                      /\ Overpass(t) # {}
                      /\ sent[t][Len(sent[t])].service = "overpass"

C1_Witness ==
    \E t \in Threads :
        /\ frame[t].query_mode = "boundary" /\ frame[t].geo # None
        /\ ~AreaDerivable(frame[t].geo[1])
        /\ HasResult(t)
        /\ ResultOf(t).query.query_mode = "radius"
        /\ \E i \in Overpass(t) : sent[t][i].key[1] = "around" /\ sent[t][i].key[2] = 2000

\* C2: a successful count-mode request returns an empty sample, and a
\* count-mode request never issues a listing query.
C2_CountModeNoSample ==
    \A t \in Threads :
        (Running(t) /\ frame[t].mode = "count") =>
            /\ Sent(t, "sample") = {}
            /\ Succeeded(t) => SampleOf(t) = <<>>

C2_Witness ==
    \E t \in Threads :
        /\ frame[t].mode = "count" /\ Succeeded(t)
        /\ "count" \in frame[t].hits
        /\ ResultOf(t).tree_count = SAMPLE_GUARD

\* C3: in sample mode, once the count is known (fetched or cached): above
\* 200000 the request succeeds with an empty sample and that count without a
\* listing query; at or below 200000 exactly one listing query is issued,
\* carrying the request's limit.
C3_SampleGuard ==
    \A t \in Threads :
        (Running(t) /\ frame[t].mode = "sample" /\ frame[t].tree_count # None) =>
            IF frame[t].tree_count[1] > 200000
            THEN /\ Succeeded(t)
                 /\ SampleOf(t) = <<>>
                 /\ HasResult(t) => ResultOf(t).tree_count = frame[t].tree_count[1]
                 /\ Sent(t, "sample") = {}
            ELSE /\ Cardinality(Sent(t, "sample")) = 1
                 /\ \A i \in Sent(t, "sample") : sent[t][i].limit = frame[t].limit

C3_Witness ==
    \E t \in Threads :
        /\ frame[t].mode = "sample"
        /\ frame[t].tree_count = Some(200000)
        /\ "count" \in frame[t].hits
        /\ Succeeded(t)
        /\ SampleOf(t) # <<>>

(***************************************************************************)
(* Geocode memoization                                                     *)
(***************************************************************************)
\* the places among the GeoCacheMax ones most recently looked up or stored
RecentPlaces == {geoRecent[i].key : i \in 1..Min(Len(geoRecent), GeoCacheMax)}
GeoCacheIsRecent ==
    /\ Len(geoCache) = Min(Len(geoRecent), GeoCacheMax)
    /\ \A i \in 1..Len(geoCache) : geoCache[i] = geoRecent[i]
\* thread t's handler calls geocode_nominatim in this step
GeocodeCalled(t) == pc[t] = "recv" /\ pc'[t] \in {"geo_wait", "count"}

\* C4 (amended): the cache holds exactly the GeoCacheMax places most
\* recently stored into it or served from it, each with the result stored;
\* a call for such a place issues no upstream request and returns the
\* stored result.  (A call that overlapped an earlier resolution of the same
\* place returns its own upstream answer, which is neither stored nor counts
\* as a use.)
C4_GeocodeMemo ==
    /\ [](GeoCacheIsRecent
          /\ \A t \in Threads : "geocode" \in frame[t].hits => Sent(t, "search") = {})
    /\ [][\A t \in Threads :
            (GeocodeCalled(t) /\ frame'[t].q \in RecentPlaces) =>
                /\ pc'[t] = "count"
                /\ sent'[t] = <<>>
                /\ frame'[t].geo = Some(Entry(geoRecent, frame'[t].q).val)]_vars

C4_Witness ==
    \E t \in Threads :
        /\ "geocode" \in frame[t].hits
        /\ Len(geoCache) = GeoCacheMax
        /\ geoRecent # geoReturned

\* C4 as stated: every place among the GeoCacheMax ones for which
\* geocode_nominatim most recently returned a result is in the cache, with
\* the result last returned for it.
C4_AsStated ==
    \A i \in 1..Min(Len(geoReturned), GeoCacheMax) :
        /\ LruHas(geoCache, geoReturned[i].key)
        /\ geoCache[LruIndex(geoCache, geoReturned[i].key)].val = geoReturned[i].val

(***************************************************************************)
(* Parameter validation at the endpoints                                   *)
(***************************************************************************)
\* the parameters as the handlers' validators read them
QueryModeText(a) == Lower(Strip(OrElse(a.query_mode, S_boundary)))
ModeText(a) == Lower(Strip(OrElse(a.mode, <<>>)))
QBad(a) ==
    LET q == _norm_q(Get(a.q, <<>>))
    IN  Len(q) < 2 \/ Len(q) > Q_MAX_LEN \/ \E i \in 1..Len(q) : ~QCharAllowed(q[i])
QueryModeBad(a) == QueryModeText(a) \notin {S_boundary, S_radius}
ModeBad(a) == ModeText(a) \notin {<<>>, S_count, S_sample}
RadiusBad(a) ==
    /\ QueryModeText(a) = S_radius
    /\ LET r == PyFloat(Get(a.radius_km, <<"2">>))
       IN  ~r.ok \/ r.val < RADIUS_MIN_KM \/ r.val > RADIUS_MAX_KM
LimitBad(a) ==
    /\ ~IsNone(a.limit)
    /\ ~AllSpace(a.limit[1])
    /\ LET n == PyInt(a.limit[1])
       IN  ~n.ok \/ n.val < 1 \/ n.val > SAMPLE_MAX
ParamsBad(a) == QBad(a) \/ QueryModeBad(a) \/ ModeBad(a) \/ RadiusBad(a) \/ LimitBad(a)

\* thread t's handler runs in this step
Handled(t) == pc[t] = "recv" /\ pc'[t] # "recv"
\* in the next state thread t has answered 400 with the error envelope
Rejected(t) ==
    /\ pc'[t] = "done"
    /\ resp'[t].status = 400
    /\ resp'[t].kind = "json"
    /\ DOMAIN resp'[t].body = {"ok", "error", "hint"}
    /\ resp'[t].body.ok = FALSE
    /\ sent'[t] = <<>>
    /\ caches' = caches

\* C5: on /api and /api/geojson a request with a parameter that fails
\* validation is answered 400 with {ok:false, error, hint}, sends nothing
\* upstream and leaves the caches as they were; so are q = "" and
\* radius_km = "100" with query_mode = radius.
C5_InvalidRejected ==
    [][\A t \in Threads :
        (/\ Handled(t)
         /\ ep[t] \in {"api", "geojson"}
         /\ \/ ParamsBad(args[t])
            \/ args[t].q = Some(<<>>)
            \/ QueryModeText(args[t]) = S_radius /\ args[t].radius_km = Some(<<"1", "0", "0">>))
        => Rejected(t)]_vars

C5_Witness ==
    /\ Answered(1)
    /\ ep[1] = "geojson"
    /\ resp[1].status = 400
    /\ resp[1].body.error = parse_radius_km(<<"1", "0", "0">>).message
    /\ sent[1] = <<>>
    /\ geoCache = WarmGeoCache
    /\ areaCache = WarmAreaCache

(***************************************************************************)
(* Upstream failures                                                       *)
(***************************************************************************)
\* an upstream exchange of thread t's request failed
UpstreamFailed(t) == \E i \in 1..Len(got[t]) : ~got[t][i]
IsEnvelope(r) == r.kind = "json" /\ DOMAIN r.body = {"ok", "error", "hint"} /\ r.body.ok = FALSE

\* C6 as stated: every answer of /api and /api/geojson is a 200 success, a
\* 400 envelope or a 500 envelope, and a request one of whose upstream
\* exchanges failed is answered 400.
C6_AsStated ==
    \A t \in Threads :
        (Answered(t) /\ ep[t] \in {"api", "geojson"}) =>
            /\ \/ resp[t].status = 200
               \/ resp[t].status \in {400, 500} /\ IsEnvelope(resp[t])
            /\ UpstreamFailed(t) => resp[t].status = 400

\* C7: no upstream step is issued twice in a request; a failed upstream
\* exchange is the last one of its request, and the request is answered with
\* an error that carries no result: the JSON endpoints' envelope has only
\* ok, error and hint, the page renders no result.
C7_NoRetryNoPartial ==
    \A t \in Threads :
        /\ \A i, j \in 1..Len(sent[t]) : sent[t][i].op = sent[t][j].op => i = j
        /\ Len(got[t]) <= Len(sent[t])
        /\ \A i \in 1..Len(got[t]) : ~got[t][i] =>
              /\ i = Len(sent[t])
              /\ Failed(t)
              /\ IF ep[t] = "index"
                 THEN resp[t].body.result = None
                 ELSE /\ resp[t].status \in {400, 500}
                      /\ IsEnvelope(resp[t])

C7_Witness ==
    /\ Failed(1)
    /\ ep[1] = "api"
    /\ got[1] = <<TRUE, TRUE, FALSE>>
    /\ sent[1][3].op = "sample"
    /\ frame[1].tree_count # None

\* C8: /api/geojson with mode missing or empty, and the other parameters
\* valid, runs in sample mode; with mode "count" in any letter case it is
\* answered 400 with the envelope and sends nothing upstream; whenever
\* run_tree_locator runs for this endpoint its mode is "sample".
C8_GeojsonSampleOnly ==
    /\ [](\A t \in Threads :
            (ep[t] = "geojson" /\ frame[t] # NoFrame) => frame[t].mode = "sample")
    /\ [][\A t \in Threads :
            (Handled(t) /\ ep[t] = "geojson") =>
                /\ (/\ args[t].mode \in {None, Some(<<>>)}
                    /\ ~(QBad(args[t]) \/ QueryModeBad(args[t])
                           \/ RadiusBad(args[t]) \/ LimitBad(args[t])))
                   => /\ pc'[t] \in {"geo_wait", "count"}
                      /\ frame'[t].mode = "sample"
                /\ (args[t].mode # None /\ Lower(args[t].mode[1]) = S_count /\ ~QBad(args[t])
                      /\ ~QueryModeBad(args[t]))
                   => /\ Rejected(t)
                      /\ resp'[t].body.error = "GeoJSON ist nur im sample-Modus verfuegbar."
                /\ (args[t].mode # None /\ Lower(args[t].mode[1]) = S_count)
                   => Rejected(t)]_vars

C8_Witness ==
    /\ ep[1] = "geojson"
    /\ pc[1] = "sample_wait"
    /\ frame[1].mode = "sample"
    /\ frame[1].limit = SAMPLE_DEFAULT
    /\ frame[1].used_mode = "radius"

(***************************************************************************)
(* Direct calls of the pure functions                                      *)
(***************************************************************************)
\* out - id, in units of 10^8, for ids written <<billions, rest>>
AreaOffset(out, id) == (out[1] - id[1]) * 10 + (out[2] - id[2]) \div 100000000
IsAreaId(out, id, offset) ==
    /\ out # None
    /\ out[1][2] \in 0..(BASE - 1)
    /\ (out[1][2] - id[2]) % 100000000 = 0
    /\ AreaOffset(out[1], id) = offset

\* C9: _area_id_from_osm gives id + 3600000000 for kind "relation" and
\* id + 2400000000 for kind "way", the kind compared case-insensitively, and
\* no area id for any other kind (node, empty, missing, unknown).
C9_AreaId ==
    probe.fn = "_area_id_from_osm" =>
        LET kind == Lower(Get(probe.in[1], <<>>))
            id == probe.in[2]
        IN  IF kind = S_relation THEN IsAreaId(probe.out, id, 36)
            ELSE IF kind = S_way THEN IsAreaId(probe.out, id, 24)
            ELSE probe.out = None

C9_Witness ==
    /\ probe.fn = "_area_id_from_osm"
    /\ probe.in = <<Some(<<"R", "E", "L", "A", "T", "I", "O", "N">>), <<0, 400000000>>>>
    /\ probe.out = Some(<<4, 0>>)

\* C10: parse_limit gives the default, whatever it is, for a missing, empty
\* or whitespace-only text; for any other text it gives the integer the text
\* denotes when that lies in 1..2000 and raises a user-facing error when the
\* text is no integer or the integer lies outside; and every endpoint
\* rejects a request with such a limit, in count mode too.
C10_ParseLimit ==
    /\ [](probe.fn = "parse_limit" =>
            LET raw == probe.in[1]
                default == probe.in[2]
            IN  IF IsNone(raw) \/ AllSpace(raw[1]) THEN probe.out = Ok(default)
                ELSE LET n == PyInt(raw[1])
                     IN  IF n.ok /\ n.val \in 1..SAMPLE_MAX THEN probe.out = Ok(n.val)
                         ELSE ~probe.out.ok /\ probe.out.user)
    /\ [][\A t \in Threads :
            (Handled(t) /\ LimitBad(args[t])) =>
                /\ pc'[t] = "done"
                /\ sent'[t] = <<>>
                /\ IF ep[t] = "index"
                   THEN resp'[t].body.result = None /\ resp'[t].body.error # ""
                   ELSE resp'[t].status = 400 /\ IsEnvelope(resp'[t])]_vars

C10_Witness ==
    /\ probe.fn = "parse_limit"
    /\ probe.in = <<Some(<<"\t", " ">>), SAMPLE_MAX + 1>>
    /\ probe.out = Ok(SAMPLE_MAX + 1)

\* C11: parse_radius_km returns the number a text denotes when it lies in
\* [0.1, 50.0], both ends included, and raises a user-facing error when the
\* number lies below 0.1 or above 50.0 or the text denotes no number.
C11_ParseRadius ==
    probe.fn = "parse_radius_km" =>
        LET f == PyFloat(probe.in[1])
        IN  IF f.ok /\ 10 * f.val >= FLOAT_UNIT /\ f.val <= 50 * FLOAT_UNIT
            THEN probe.out = Ok(f.val)
            ELSE ~probe.out.ok /\ probe.out.user

C11_Witness ==
    /\ probe.fn = "parse_radius_km"
    /\ probe.in = <<<<"5", "0", ".", "0">>>>
    /\ probe.out = Ok(50 * FLOAT_UNIT)

NoSpaceRun(q) == \A i \in 1..(Len(q) - 1) : ~(IsSpace(q[i]) /\ IsSpace(q[i + 1]))

\* C12: validate_q is idempotent: a result p of validate_q is accepted by
\* validate_q and returned as it is; and p has 2 to 120 characters, no
\* whitespace at either end and no two whitespace characters in a row.
C12_ValidateQIdempotent ==
    (probe.fn = "validate_q" /\ probe.out.ok) =>
        LET p == probe.out.val
        IN  /\ probe.again = Some(Ok(p))
            /\ Len(p) \in 2..Q_MAX_LEN
            /\ ~IsSpace(p[1]) /\ ~IsSpace(p[Len(p)])
            /\ NoSpaceRun(p)

C12_Witness ==
    /\ probe.fn = "validate_q"
    /\ probe.in = <<<<"\n", "a", " ", "\t", "\n", " ", "b", "\n">>>>
    /\ probe.out = Ok(<<"a", " ", "b">>)
    /\ probe.again = Some(Ok(<<"a", " ", "b">>))

\* the characters the specification allows in a place
QCharSpecified(c) ==
    \/ IsLetter(c) \/ c \in {"a_uml", "A_uml", "sz"}
    \/ IsDigit(c)
    \/ c = " "
    \/ c \in {".", ",", "-", "'", "/", "(", ")"}

\* C13 as stated: validate_q accepts a text exactly when, whitespace
\* normalized, it has 2 to 120 characters, each a letter, a digit, a space
\* or one of . , - ' / ( ); an underscore, a semicolon or a quote mark makes
\* it fail with a user-facing error.
C13_AsStated ==
    probe.fn = "validate_q" =>
        LET q == _norm_q(probe.in[1])
        IN  IF Len(q) \in 2..Q_MAX_LEN /\ \A i \in 1..Len(q) : QCharSpecified(q[i])
            THEN probe.out = Ok(q)
            ELSE ~probe.out.ok /\ probe.out.user

\* a missing text is the empty text; otherwise the text trimmed, in lower case
Folded(raw) == IF IsNone(raw) THEN <<>> ELSE Lower(Strip(raw[1]))

\* C14 as stated: both mode parsers compare the trimmed text without regard
\* to case; parse_mode gives "count" for a missing, empty or blank text and
\* for "count", "sample" for "sample"; parse_query_mode gives "boundary" for
\* a missing, empty or blank text and for "boundary", "radius" for "radius";
\* every other text fails with a user-facing error.
C14_AsStated ==
    probe.fn = "parse_mode" =>
        LET t == Folded(probe.in[1])
            m == probe.out.mode
            qm == probe.out.query_mode
        IN  /\ IF t \in {<<>>, S_count} THEN m = Ok("count")
               ELSE IF t = S_sample THEN m = Ok("sample")
               ELSE ~m.ok /\ m.user
            /\ IF t \in {<<>>, S_boundary} THEN qm = Ok("boundary")
               ELSE IF t = S_radius THEN qm = Ok("radius")
               ELSE ~qm.ok /\ qm.user

\* the place of an upstream operation in a run
OpRank(op) == IF op = "search" THEN 1 ELSE IF op = "count" THEN 2 ELSE 3

\* C16: the upstream requests of one run are sent in the order geocode
\* search, count query, listing query, each at most once and one at a time;
\* when the count query is sent, or the count is taken from the cache, the
\* geocode step has ended with a result (from upstream or from the cache);
\* when the listing query is sent the count step has ended with a count; and
\* every request sent before another one was answered successfully.
C16_ProtocolOrder ==
    \A t \in Threads :
        /\ \A i, j \in 1..Len(sent[t]) :
              i < j => OpRank(sent[t][i].op) < OpRank(sent[t][j].op)
        /\ Len(sent[t]) - 1 <= Len(got[t]) /\ Len(got[t]) <= Len(sent[t])
        /\ \A i \in 1..(Len(sent[t]) - 1) : got[t][i]
        /\ (Sent(t, "count") # {} \/ frame[t].tree_count # None) => frame[t].geo # None
        /\ Sent(t, "sample") # {} => frame[t].tree_count # None
        /\ pc[t] = "geo_wait" => sent[t][Len(sent[t])].op = "search" /\ frame[t].geo = None
        /\ pc[t] = "count_wait" => sent[t][Len(sent[t])].op = "count" /\ frame[t].tree_count = None
        /\ pc[t] = "sample_wait" => sent[t][Len(sent[t])].op = "sample"

C16_Witness ==
    /\ Succeeded(1)
    /\ ep[1] = "geojson"
    /\ Len(sent[1]) = 3
    /\ sent[1][1].op = "search" /\ sent[1][2].op = "count" /\ sent[1][3].op = "sample"
    /\ got[1] = <<TRUE, TRUE, TRUE>>

UniqueKeys(cache) ==
    \A i, j \in 1..Len(cache) : cache[i].key = cache[j].key => i = j
\* every entry is the result some ended upstream call of fn gave for its key
Backed(cache, fn) ==
    \A i \in 1..Len(cache) :
        [key |-> cache[i].key, ok |-> TRUE, val |-> Some(cache[i].val)] \in produced[fn]

\* C15: with requests overlapping in any way, each cache holds at most its
\* capacity and at most one entry per key, and every entry under a key is a
\* result a successful upstream call for that very key produced; the place
\* and the count a request works with, and the result it answers with, are
\* results of its own place and of its own count key.
C15_CachesRaceFree ==
    /\ Len(geoCache) <= GeoCacheMax /\ UniqueKeys(geoCache) /\ Backed(geoCache, "geocode")
    /\ \A i \in 1..Len(geoCache) : geoCache[i].val.q = geoCache[i].key
    /\ Len(areaCache) <= CountCacheMax /\ UniqueKeys(areaCache) /\ Backed(areaCache, "by_area")
    /\ Len(radiusCache) <= CountCacheMax /\ UniqueKeys(radiusCache)
    /\ Backed(radiusCache, "by_radius")
    /\ \A t \in Threads :
         /\ frame[t].geo # None =>
              /\ frame[t].geo[1].q = frame[t].q
              /\ [key |-> frame[t].q, ok |-> TRUE, val |-> frame[t].geo] \in produced.geocode
         /\ frame[t].tree_count # None =>
              [key |-> count_key(frame[t]), ok |-> TRUE, val |-> frame[t].tree_count]
                  \in produced[CountFn(frame[t])]
         /\ HasResult(t) =>
              /\ ResultOf(t).query.q = frame[t].q
              /\ ResultOf(t).query.lat = frame[t].geo[1].lat
              /\ ResultOf(t).tree_count = frame[t].tree_count[1]

\* both workers went upstream for the same place and got different results,
\* one of which is in the cache, and both have their counts
C15_Witness ==
    /\ frame[1].q = frame[2].q
    /\ Sent(1, "search") # {} /\ Sent(2, "search") # {}
    /\ frame[1].geo # None /\ frame[2].geo # None /\ frame[1].geo # frame[2].geo
    /\ LruHas(geoCache, frame[1].q)
    /\ frame[1].tree_count # None /\ frame[2].tree_count # None
    /\ frame[1].tree_count # frame[2].tree_count
    /\ Len(areaCache) = CountCacheMax

\* run_tree_locator of worker t makes its count call in this step
CountCalled(t) ==
    /\ pc[t] = "count" /\ pc'[t] # "count"
    /\ ~(frame[t].mode # "count" /\ frame[t].limit > SAMPLE_MAX)
\* the count function and the key of that call
FnOf(t) == CountFn(resolve_mode(frame[t]))
KeyOf(t) == count_key(resolve_mode(frame[t]))
\* key is among the CountCacheMax keys fn used last
NotEvicted(fn, key) ==
    \E i \in 1..Min(Len(countRecent[fn]), CountCacheMax) : countRecent[fn][i].key = key
\* the count becomes known to the run of worker t in this step
CountKnown(t) == frame[t].tree_count = None /\ frame'[t].tree_count # None
AreaOfRelation == _area_id_from_osm(Some(S_relation), ItemRelation.osm_id[1])[1]

CallFailed(t) ==
    /\ pc[t] \in {"geo_wait", "count_wait"}
    /\ got'[t] = Append(got[t], FALSE)
\* no upstream call of fn for key has ever returned a result
NeverGot(fn, key) == ~\E e \in produced[fn] : e.ok /\ e.key = key

\* C18: a geocoding call or a count call that raises, whatever the error,
\* leaves all three caches as they were; the caches hold nothing but results
\* of calls that returned; and a call for a place or a count key for which
\* no call has returned a result yet, in particular one that has failed so
\* far, sends a new upstream request.
C18_FailuresNotMemoized ==
    /\ [][\A t \in Threads :
            /\ CallFailed(t) =>
                  /\ geoCache' = geoCache /\ areaCache' = areaCache /\ radiusCache' = radiusCache
                  /\ Failed(t)'
            /\ (GeocodeCalled(t) /\ NeverGot("geocode", frame'[t].q)) =>
                  /\ pc'[t] = "geo_wait"
                  /\ sent'[t] = <<NominatimRequest(frame'[t].q)>>
            /\ (CountCalled(t) /\ NeverGot(FnOf(t), KeyOf(t))) =>
                  /\ pc'[t] = "count_wait"
                  /\ sent'[t] = Append(sent[t], OverpassRequest("count", frame'[t]))]_vars
    /\ [](Backed(geoCache, "geocode") /\ Backed(areaCache, "by_area")
             /\ Backed(radiusCache, "by_radius"))

\* a request succeeds for a place and a count key that both failed before:
\* it went upstream for both
C18_Witness ==
    /\ Succeeded(1)
    /\ [key |-> frame[1].q, ok |-> FALSE, val |-> None] \in produced.geocode
    /\ [key |-> count_key(frame[1]), ok |-> FALSE, val |-> None] \in produced[CountFn(frame[1])]
    /\ Sent(1, "search") # {} /\ Sent(1, "count") # {}
    /\ got[1][1] /\ got[1][2]

\* out is a user-facing error with this message
UserError(out, message) == ~out.ok /\ out.user /\ out.message = message
\* the body is an empty result set
NoMatch(json) ==
    \/ json.kind = "array" /\ json.items = <<>>
    \/ json.kind = "object" /\ json.empty
\* the body has a first match with lat and lon that are numbers and an osm_id
FirstMatchUsable(json) ==
    /\ json.kind = "array" /\ json.items # <<>>
    /\ LET item == json.items[1]
       IN  /\ item.lat # None /\ PyFloat(item.lat[1]).ok
           /\ item.lon # None /\ PyFloat(item.lon[1]).ok
           /\ item.osm_id # None

\* C19 as stated: every outcome of the exchange with Nominatim gives one
\* result, by this precedence: no answer - "not reachable"; 429 - "rate
\* limit"; 500 and above - "server error"; another status than 200 -
\* "failed" with the status as hint; 200 and no match - "not found"; 200 and
\* a first match without usable lat, lon or osm_id - "cannot be processed";
\* else the result built from the first match alone, display_name q when
\* missing, geojson kept only when an object.  Every error is user-facing.
C19_AsStated ==
    probe.fn = "geocode_nominatim" =>
        LET q == probe.in[1]
            r == probe.in[2]
            out == probe.out
        IN  IF r.exc THEN UserError(out, "Geocoding ist aktuell nicht erreichbar.")
            ELSE IF r.status = 429 THEN UserError(out, "Geocoding-Limit erreicht (Rate Limit).")
            ELSE IF r.status >= 500 THEN UserError(out, "Geocoding-Serverfehler.")
            ELSE IF r.status # 200
            THEN UserError(out, "Geocoding fehlgeschlagen.")
                    /\ out.hint = Some("HTTP " \o ToString(r.status))
            ELSE IF NoMatch(r.json) THEN UserError(out, "Ort nicht gefunden.")
            ELSE IF ~FirstMatchUsable(r.json)
            THEN UserError(out, "Geocoding-Antwort konnte nicht verarbeitet werden.")
            ELSE LET item == r.json.items[1]
                 IN  /\ out.ok
                     /\ out.val.q = q
                     /\ out.val.display_name = Get(item.display_name, q)
                     /\ out.val.lat = PyFloat(item.lat[1]).val
                     /\ out.val.lon = PyFloat(item.lon[1]).val
                     /\ out.val.osm_type = Get(item.osm_type, <<>>)
                     /\ out.val.osm_id = item.osm_id[1]
                     /\ out.val.geojson = IF item.geojson # None /\ item.geojson[1].dict
                                          THEN Some(item.geojson[1].v) ELSE None

\* the elements of a listing answer that are nodes with both coordinates
Listed(json) ==
    SelectSeq(Get(json.elements, <<>>),
              LAMBDA el : el.type = "node" /\ el.lat # None /\ el.lon # None)

\* C20 as stated: a listing call that succeeds returns the nodes with both
\* coordinates among the elements of the answer, in the order of the answer,
\* each once, and not more of them than its limit; the sample of every
\* successful sample-mode response has at most as many points as the
\* request's limit, hence at most 2000.
C20_AsStated ==
    /\ (probe.fn = "overpass_sample" /\ probe.out.ok) =>
          LET listed == Listed(probe.in[2].json)
              sample == probe.out.val
          IN  /\ Len(sample) = Len(listed)
              /\ \A i \in 1..Len(sample) :
                    /\ sample[i].id = listed[i].id
                    /\ sample[i].lat = listed[i].lat[1]
                    /\ sample[i].lon = listed[i].lon[1]
              /\ Len(sample) <= probe.in[1]
    /\ \A t \in Threads :
          (Succeeded(t) /\ frame[t].mode = "sample") =>
              /\ Len(SampleOf(t)) <= frame[t].limit
              /\ Len(SampleOf(t)) <= SAMPLE_MAX

\* the parameters other than radius_km pass their validation
OthersGood(a) ==
    /\ ~(QBad(a) \/ QueryModeBad(a) \/ ModeBad(a) \/ LimitBad(a))
    /\ a.ep = "geojson" => Lower(Strip(OrElse(a.mode, S_sample))) = S_sample
\* the handler of worker t starts run_tree_locator in this step
Started(t) == pc'[t] \in {"geo_wait", "count"}
\* the radii, in meters, of the radius queries worker t has sent
RadiiSent(t) ==
    {sent[t][i].key[2] : i \in {j \in Overpass(t) : sent[t][j].key[1] = "around"}}
Meters(km) == RoundHalfEven(km, FLOAT_UNIT \div 1000)

\* C21: every radius query sent, from any of the three endpoints, has a
\* radius of 100 to 50000 meters.  With query_mode radius the radius_km
\* parameter (2 when missing) is validated and is the radius of the run;
\* with query_mode boundary it is not looked at: whatever its text the
\* request is not refused for it and runs without a radius, so that a run
\* that falls back to a radius query asks for exactly 2000 m and reports
\* radius_km 2.0, and a run that queries by area reports radius_km null.
C21_RadiusUpstream ==
    /\ [](\A t \in Threads :
            /\ \A m \in RadiiSent(t) : 100 <= m /\ m <= 50000
            /\ frame[t].query_mode = "radius" =>
                  /\ frame[t].radius_km # None
                  /\ RadiiSent(t) \subseteq {Meters(frame[t].radius_km[1])}
                  /\ HasResult(t) => ResultOf(t).query.radius_km = frame[t].radius_km
            /\ frame[t].query_mode = "boundary" =>
                  /\ frame[t].radius_km = None
                  /\ RadiiSent(t) \subseteq {2000}
                  /\ frame[t].used_mode = "radius" =>
                        /\ ~AreaDerivable(frame[t].geo[1])
                        /\ frame[t].radius_m = Some(2000)
                  /\ HasResult(t) =>
                        ResultOf(t).query.radius_km =
                            IF ResultOf(t).query.query_mode = "radius"
                            THEN Some(2 * FLOAT_UNIT) ELSE None)
    /\ [][\A t \in Threads :
            (Handled(t) /\ OthersGood(args[t])) =>
                /\ QueryModeText(args[t]) = S_boundary =>
                      /\ Started(t)
                      /\ frame'[t].query_mode = "boundary"
                      /\ frame'[t].radius_km = None
                /\ QueryModeText(args[t]) = S_radius =>
                      IF RadiusBad(args[t])
                      THEN /\ Failed(t)' /\ sent'[t] = <<>>
                           /\ ep[t] # "index" => Rejected(t)
                      ELSE /\ Started(t)
                           /\ frame'[t].radius_km =
                                 Some(PyFloat(Get(args[t].radius_km, <<"2">>)).val)]_vars

\* a boundary request for a place that is a node was answered from a radius
\* query of 2000 m and reports radius_km 2.0
C21_Witness ==
    /\ HasResult(1)
    /\ ep[1] = "api"
    /\ frame[1].query_mode = "boundary"
    /\ ResultOf(1).query.query_mode = "radius"
    /\ ResultOf(1).query.radius_km = Some(2 * FLOAT_UNIT)
    /\ RadiiSent(1) = {2000}
    /\ Cardinality(Overpass(1)) = 2

\* Nominatim may answer differently from one call for Place1 to the next,
\* and may fail for Place3
ConcGeoAnswers(q) ==
    {Http(200, JsonArray(<<ItemRelation>>))}
        \cup (IF q = Place1 THEN {Http(200, JsonArray(<<ItemWay>>))} ELSE {})
        \cup (IF q = Place3 THEN {NetFailure} ELSE {})
\* Overpass counts no tree in the relation's area and seven in the way's, or fails there
ConcCountAnswers(f) ==
    IF f.area_id = _area_id_from_osm(Some(S_relation), ItemRelation.osm_id[1])
    THEN {Http(200, JsonObject(FALSE, Some(<<>>)))}
    ELSE {NetFailure, Http(200, JsonObject(FALSE, Some(<<CountElement(Some(<<"7">>))>>)))}
ConcSampleAnswers ==
    {NetFailure,
     Http(200, JsonObject(FALSE, Some(<<[type |-> "node", lat |-> Some(1), lon |-> Some(1), id |-> 11]>>)))}

\* the steps of worker t
Worker(t) ==
    \/ Arrive(t, ConcArgs(t), MaxConcRequests)
    \/ Handle(t)
    \/ GeocodeReturn(t, ConcGeoAnswers(frame[t].q))
    \/ CountCall(t)
    \/ CountReturn(t, ConcCountAnswers(frame[t]))
    \/ SampleReturn(t, ConcSampleAnswers)
    \/ Deliver(t)

NextConc == Worker(1) \/ Worker(2)

SpecConc == Init /\ [][NextConc]_vars
====
